---- MODULE Spec2Model ----
(***************************************************************************)
(* Model of the form submission server (src/server.js).                    *)
(*                                                                         *)
(* State: the requests in flight on POST /submit (their req.body as the    *)
(* validation chain sanitizes it, the position of the async handler, the   *)
(* response sent), the users table behind the connection pool, and the     *)
(* last response of GET /users.                                            *)
(*                                                                         *)
(* A JavaScript value is a record tagged with its type; a string is the    *)
(* sequence of its characters, so that trim, toLowerCase, length, split    *)
(* are computed and not assumed.                                           *)
(***************************************************************************)
EXTENDS Integers, Sequences, FiniteSets, TLC

\* ------------------------------------------------------------------------
\* Bounds of the model
\* ------------------------------------------------------------------------
\* number of POST /submit requests a behaviour issues
NumReqs == 2
\* the storage clock (seconds) runs from 1 to 1 + MaxTicks
MaxTicks == 1

\* ------------------------------------------------------------------------
\* Program constants
\* ------------------------------------------------------------------------
NameMax == 100
PasswordMin == 6
MessageMax == 2000
saltRounds == 10

Reqs == 1..NumReqs

\* ------------------------------------------------------------------------
\* JavaScript values
\* ------------------------------------------------------------------------
Undefined == [t |-> "undefined"]
Null == [t |-> "null"]
Str(s) == [t |-> "string", v |-> s]
\* a number, held as its decimal digits
Num(d) == [t |-> "number", v |-> d]
Arr(s) == [t |-> "array", v |-> s]
\* a string the program only passes on, held whole
Text(m) == [t |-> "string", text |-> m]
False == [t |-> "boolean", v |-> << >>]

\* express-validator's toString: the empty string for null and undefined, String(x) else
toString(x) == IF x.t \in {"string", "number"} THEN x.v ELSE <<>>

\* JavaScript falsiness, as used by `x || null` and optional({checkFalsy})
Falsy(x) ==
    \/ x.t \in {"undefined", "null"}
    \/ x.t = "string" /\ x.v = <<>>
    \/ x.t = "number" /\ x.v = << [c |-> "0", n |-> 1] >>
    \/ x.t = "boolean"

\* ------------------------------------------------------------------------
\* Characters and strings
\* ------------------------------------------------------------------------
\* A string is held as its runs: "aaab" is << [c |-> "a", n |-> 3],
\* [c |-> "b", n |-> 1] >>, no run empty and no two neighbours of one
\* character, so that equal strings are equal values.  The functions that
\* look inside an address work on the plain sequence of its characters.
LowerSeq == << "a", "b", "c", "d", "e", "f", "g", "h", "i", "j", "k", "l", "m",
               "n", "o", "p", "q", "r", "s", "t", "u", "v", "w", "x", "y", "z" >>
UpperSeq == << "A", "B", "C", "D", "E", "F", "G", "H", "I", "J", "K", "L", "M",
               "N", "O", "P", "Q", "R", "S", "T", "U", "V", "W", "X", "Y", "Z" >>
Range(s) == { s[i] : i \in 1..Len(s) }
Lower == Range(LowerSeq)
Upper == Range(UpperSeq)
Digit == { "0", "1", "2", "3", "4", "5", "6", "7", "8", "9" }
Whitespace == { " ", "\t", "\n" }

Min(S) == CHOOSE x \in S : \A y \in S : x <= y

\* n copies of the character c
Rep(c, n) == IF n > 0 THEN << [c |-> c, n |-> n] >> ELSE <<>>

\* string concatenation
Cat(s, t) ==
    IF s = <<>> THEN t
    ELSE IF t = <<>> THEN s
    ELSE IF s[Len(s)].c = t[1].c
    THEN SubSeq(s, 1, Len(s) - 1)
         \o << [c |-> t[1].c, n |-> s[Len(s)].n + t[1].n] >>
         \o Tail(t)
    ELSE s \o t

\* the string of a sequence of characters, and back
RECURSIVE Pack(_)
Pack(chars) ==
    IF chars = <<>> THEN <<>> ELSE Cat(Rep(chars[1], 1), Pack(Tail(chars)))
RECURSIVE Unpack(_)
Unpack(s) ==
    IF s = <<>> THEN <<>> ELSE [i \in 1..s[1].n |-> s[1].c] \o Unpack(Tail(s))

\* String.prototype.length
RECURSIVE Length(_)
Length(s) == IF s = <<>> THEN 0 ELSE s[1].n + Length(Tail(s))

\* .trim(): strip the whitespace at both ends
RECURSIVE trimStart(_)
trimStart(s) ==
    IF s # <<>> /\ s[1].c \in Whitespace THEN trimStart(Tail(s)) ELSE s
RECURSIVE trimEnd(_)
trimEnd(s) ==
    IF s # <<>> /\ s[Len(s)].c \in Whitespace
    THEN trimEnd(SubSeq(s, 1, Len(s) - 1)) ELSE s
trim(s) == trimEnd(trimStart(s))

\* String.prototype.toLowerCase, one character and a sequence of characters
LowerChar(c) ==
    IF c \in Upper THEN LowerSeq[CHOOSE i \in 1..Len(UpperSeq) : UpperSeq[i] = c]
    ELSE c
toLowerCase(chars) == [i \in 1..Len(chars) |-> LowerChar(chars[i])]

\* String.prototype.split on a one-character separator
RECURSIVE split(_, _)
split(chars, c) ==
    LET at == { i \in 1..Len(chars) : chars[i] = c }
    IN  IF at = {} THEN << chars >>
        ELSE << SubSeq(chars, 1, Min(at) - 1) >>
             \o split(SubSeq(chars, Min(at) + 1, Len(chars)), c)

\* Array.prototype.join on a one-character separator
RECURSIVE join(_, _)
join(parts, c) ==
    IF Len(parts) = 0 THEN <<>>
    ELSE IF Len(parts) = 1 THEN parts[1]
    ELSE parts[1] \o << c >> \o join(Tail(parts), c)

\* the array without its last element, and that element (Array.prototype.pop)
Front(parts) == SubSeq(parts, 1, Len(parts) - 1)
Last(parts) == parts[Len(parts)]

\* ------------------------------------------------------------------------
\* The validators and sanitizers the chains name
\* ------------------------------------------------------------------------
\* .notEmpty()
notEmpty(s) == Length(s) > 0

\* isFQDN with its default options: at least two labels, a top-level domain
\* of two letters or more, labels of letters, digits and inner hyphens
isFQDN(d) ==
    LET parts == split(d, ".")
        tld == Last(parts)
    IN  /\ Len(parts) >= 2
        /\ Len(tld) >= 2
        /\ Range(tld) \subseteq (Lower \cup Upper)
        /\ \A i \in 1..Len(parts) :
              /\ Len(parts[i]) \in 1..63
              /\ Range(parts[i]) \subseteq (Lower \cup Upper \cup Digit \cup {"-"})
              /\ parts[i][1] # "-"
              /\ Last(parts[i]) # "-"

\* characters of an unquoted local part
UserChars ==
    Lower \cup Upper \cup Digit \cup
    { "!", "#", "$", "%", "&", "*", "+", "-", "/", "=", "?", "^", "_", "~" }

\* .isEmail() with its default options: the part after the last @ is a
\* fully qualified domain name, the part before it is dot-separated atoms
isEmail(s) ==
    LET parts == split(Unpack(s), "@")
        domain == Last(parts)
        user == join(Front(parts), "@")
        atoms == split(user, ".")
    IN  /\ Len(user) <= 64
        /\ Len(domain) <= 254
        /\ isFQDN(domain)
        /\ \A i \in 1..Len(atoms) :
              /\ Len(atoms[i]) > 0
              /\ Range(atoms[i]) \subseteq UserChars

GMAIL == << "g", "m", "a", "i", "l", ".", "c", "o", "m" >>
GOOGLEMAIL == << "g", "o", "o", "g", "l", "e", "m", "a", "i", "l", ".", "c", "o", "m" >>

\* the string without the occurrences of the character c
Without(s, c) == SelectSeq(s, LAMBDA x : x # c)

\* .normalizeEmail() with its default options: the domain is lowercased; a
\* gmail address loses its sub-address and its dots, is lowercased and moved
\* to gmail.com; any other address is lowercased.  (The sub-address rules
\* of the other providers it knows are left out: no input of the model is
\* at one of them.)  It does not check that the value is an address: the
\* empty string becomes "@".
normalizeEmail(s) ==
    LET parts == split(Unpack(s), "@")
        domain == toLowerCase(Last(parts))
        user == join(Front(parts), "@")
    IN  IF domain \in { GMAIL, GOOGLEMAIL }
        THEN LET u == toLowerCase(Without(split(user, "+")[1], "."))
             IN  IF u = <<>> THEN False
                 ELSE Str(Pack(u \o << "@" >> \o GMAIL))
        ELSE Str(Pack(toLowerCase(user) \o << "@" >> \o domain))

\* ------------------------------------------------------------------------
\* POST /submit: the validation chains (server.js 61-79)
\* ------------------------------------------------------------------------
\* A chain yields the value it leaves in req.body and the errors it adds.
\* Sanitizers rewrite the field; every validator of a chain runs (no bail).
Error(path, msg) == [path |-> path, msg |-> msg]

\* body("name").trim().notEmpty()...isLength({ max: 100 })...
nameChain(x) ==
    LET v == trim(toString(x))
    IN  [ value |-> Str(v),
          errors |->
            (IF notEmpty(v) THEN <<>> ELSE << Error("name", "Name is required") >>)
            \o (IF Length(v) <= NameMax THEN <<>>
                ELSE << Error("name", "Name is too long") >>) ]

\* body("email").trim().isEmail()...normalizeEmail()
emailChain(x) ==
    LET v == trim(toString(x))
    IN  [ value |-> normalizeEmail(v),
          errors |->
            IF isEmail(v) THEN <<>>
            ELSE << Error("email", "Valid email is required") >> ]

\* (mutant) the lower bound of the password's length off by one
passwordChainOffByOne(x) ==
    [ value |-> x,
      errors |->
        IF Length(toString(x)) >= PasswordMin - 1 THEN <<>>
        ELSE << Error("password", "Password must be at least 6 characters") >> ]

\* body("password").isLength({ min: 6 })...: a validator reads the value as
\* a string and leaves the field as it was sent
passwordChain(x) ==
    [ value |-> x,
      errors |->
        IF Length(toString(x)) >= PasswordMin THEN <<>>
        ELSE << Error("password", "Password must be at least 6 characters") >> ]

\* body("message").trim().optional({ checkFalsy: true }).isLength({ max: 2000 })
\* an item of the chain is skipped while the value is falsy
messageChain(x) ==
    IF Falsy(x) THEN [ value |-> x, errors |-> <<>> ]
    ELSE LET v == trim(toString(x))
         IN  [ value |-> Str(v),
               errors |->
                 IF Falsy(Str(v)) \/ Length(v) <= MessageMax THEN <<>>
                 ELSE << Error("message", "Message is too long") >> ]

\* the four chains, in order, on req.body: the body they leave and
\* validationResult(req)
Validation(b) ==
    LET n == nameChain(b.name)
        e == emailChain(b.email)
        p == passwordChain(b.password)
        m == messageChain(b.message)
    IN  [ body |-> [ name |-> n.value, email |-> e.value,
                     password |-> p.value, message |-> m.value ],
          errors |-> n.errors \o e.errors \o p.errors \o m.errors ]

\* ------------------------------------------------------------------------
\* POST /submit: the handler (server.js 81-128)
\* ------------------------------------------------------------------------
\* a rendering of the "form" view: res.status(s).render("form", {...})
Render(status, errors, old, success) ==
    [ status |-> status, errors |-> errors, old |-> old, success |-> success ]
NoResponse == [ status |-> 0 ]

\* old: {}
NoOld == [ name |-> Undefined, email |-> Undefined, message |-> Undefined ]
\* old: { name, email, message }, of the names destructured from req.body
Old(b) == [ name |-> b.name, email |-> b.email, message |-> b.message ]

\* if (!errors.isEmpty()) return res.status(422).render(...)
RenderInvalid(b, errors) == Render(422, Arr(errors), Old(b), Null)

\* return res.render("form", { errors: null, old: {}, success: ... })
RenderSuccess == Render(200, Null, NoOld, Text("Form submitted successfully!"))

\* (mutant) the catch block without its test of err.code
errMsgUnclassified(code) == "An error occurred. Please try again."

\* the catch block: the message by the code of the error caught
errMsg(code) ==
    IF code = "ER_DUP_ENTRY" THEN "This email is already registered."
    ELSE "An error occurred. Please try again."
\* (mutant) the catch block renders without res.status(500)
RenderFailureNoStatus(b, code) ==
    Render(200, Arr(<< [ msg |-> errMsg(code) ] >>), Old(b), Null)
RenderFailure(b, code) ==
    Render(500, Arr(<< [ msg |-> errMsg(code) ] >>), Old(b), Null)

\* bcrypt.hash(password, 10): rejects what is not a string; else the 60
\* characters "$2a$10$", 22 of salt, 31 of digest.  The digest stands for the
\* Blowfish digest: a function of the password and the salt, over the
\* digest alphabet.
DigitSeq == << "0", "1", "2", "3", "4", "5", "6", "7", "8", "9" >>
BcryptPrefix ==
    Pack(<< "$", "2", "a", "$", DigitSeq[(saltRounds \div 10) + 1],
            DigitSeq[(saltRounds % 10) + 1], "$" >>)
Salts == { Rep("u", 22), Rep("v", 22) }
Rot13(c) ==
    IF LowerChar(c) \in Lower
    THEN LowerSeq[(((CHOOSE i \in 1..26 : LowerSeq[i] = LowerChar(c)) + 12) % 26) + 1]
    ELSE "/"
Digest(s, salt) ==
    LET chars == Unpack(s)
        head == [ i \in 1..Min({ Len(chars), 30 }) |-> Rot13(chars[i]) ]
    IN  Cat(Pack(head), Cat(Rep(".", 30 - Len(head)), Rep(salt[1].c, 1)))
hash(password, salt) ==
    IF password.t # "string" THEN [ ok |-> FALSE, code |-> "undefined" ]
    ELSE [ ok |-> TRUE,
           value |-> Str(Cat(BcryptPrefix, Cat(salt, Digest(password.v, salt)))) ]

\* (mutant) message bound as it is, without || null
OrNullDropped(x) == x

\* message || null
OrNull(x) == IF Falsy(x) THEN Null ELSE x

\* the parameters bound to INSERT INTO users (name, email, password_hash, message)
InsertValues(b, password_hash) ==
    [ name |-> b.name, email |-> b.email, password_hash |-> password_hash,
      message |-> OrNull(b.message) ]

\* ------------------------------------------------------------------------
\* The users table
\* ------------------------------------------------------------------------
\* the UNIQUE index on email rejects a value the table holds
Duplicate(table, email) == \E i \in 1..Len(table) : table[i].email = email

\* the row an INSERT adds: the storage assigns id and created_at
Row(values, id, ts) ==
    [ id |-> id, name |-> values.name, email |-> values.email,
      password_hash |-> values.password_hash, message |-> values.message,
      created_at |-> ts ]

\* pool.execute(sql, values): one statement, all or nothing
Insert(table, values, id, ts, fault) ==
    IF fault THEN [ code |-> "ECONNRESET", table |-> table, insertId |-> 0 ]
    ELSE IF Duplicate(table, values.email)
    THEN [ code |-> "ER_DUP_ENTRY", table |-> table, insertId |-> 0 ]
    ELSE [ code |-> "none", table |-> Append(table, Row(values, id, ts)),
           insertId |-> id ]

\* SELECT id, name, email, message, created_at
Columns(row) ==
    [ id |-> row.id, name |-> row.name, email |-> row.email,
      message |-> row.message, created_at |-> row.created_at ]

\* (mutant) ORDER BY created_at, ascending
OrderedAscending(rows) ==
    \A i, j \in 1..Len(rows) : i < j => rows[i].created_at <= rows[j].created_at

\* ORDER BY created_at DESC
Ordered(rows) ==
    \A i, j \in 1..Len(rows) : i < j => rows[i].created_at >= rows[j].created_at

\* the results the SELECT of GET /users may give: the rows in an order the
\* ORDER BY allows (rows of one timestamp come in any order)
Select(table) ==
    LET n == Len(table)
        perms == { f \in [1..n -> 1..n] : \A i, j \in 1..n : i # j => f[i] # f[j] }
    IN  { r \in { [ i \in 1..n |-> Columns(table[f[i]]) ] : f \in perms } : Ordered(r) }

\* ------------------------------------------------------------------------
\* Inputs
\* ------------------------------------------------------------------------
ANN == Pack(<< "A", "n", "n" >>)
BOB == Pack(<< "B", "o", "b" >>)
HI == Pack(<< "h", "i" >>)
SP == Rep(" ", 1)
ANN_X_COM == Pack(<< "a", "n", "n", "@", "x", ".", "c", "o", "m" >>)
ANN_X_COM_RAW == Pack(<< " ", "A", "n", "n", "@", "X", ".", "c", "o", "m", " " >>)
BOB_GMAIL == Pack(<< "B", "O", "B", "@" >> \o GMAIL)
BOB_GOOGLEMAIL == Pack(<< "b", ".", "o", "b", "+", "x", "@" >> \o GOOGLEMAIL)
BAD == Pack(<< "b", "a", "d" >>)
SECRET1 == Pack(<< "s", "e", "c", "r", "e", "t", "1" >>)
HUNTER == Pack(<< "h", "u", "n", "t", "e", "r" >>)
ABC12 == Pack(<< "a", "b", "c", "1", "2" >>)
DIGITS == Pack(<< "1", "2", "3", "4", "5", "6", "7" >>)

Body(name, email, password, message) ==
    [ name |-> name, email |-> email, password |-> password, message |-> message ]

\* the bodies that pass the validation chains
ValidBodies ==
    { Body(Str(ANN), Str(ANN_X_COM), Str(SECRET1), Undefined),
      Body(Str(Cat(SP, Cat(ANN, SP))), Str(ANN_X_COM_RAW), Str(SECRET1),
           Str(Cat(SP, Cat(HI, SP)))),
      Body(Str(Rep("b", NameMax)), Str(BOB_GMAIL), Str(HUNTER),
           Str(Cat(SP, Cat(Rep("m", MessageMax), SP)))),
      Body(Str(BOB), Str(BOB_GOOGLEMAIL), Str(HUNTER), Str(Rep(" ", 2))),
      Body(Str(ANN), Str(ANN_X_COM), Num(DIGITS), Str(<<>>)) }

\* bodies that break one rule each
InvalidBodies ==
    { Body(Str(ANN), Str(BAD), Str(SECRET1), Str(HI)),
      Body(Str(Rep(" ", 2)), Str(ANN_X_COM), Str(SECRET1), Undefined),
      Body(Str(Rep("a", NameMax + 1)), Str(ANN_X_COM), Str(SECRET1), Undefined),
      Body(Str(ANN), Str(ANN_X_COM), Str(ABC12), Undefined),
      Body(Str(ANN), Str(ANN_X_COM), Str(SECRET1), Str(Rep("m", MessageMax + 1))) }

\* the bodies a request may carry (form-encoded or JSON)
Bodies == ValidBodies \cup InvalidBodies

NoBody == Body(Undefined, Undefined, Undefined, Undefined)

\* ------------------------------------------------------------------------
\* State
\* ------------------------------------------------------------------------
VARIABLES
    pc,             \* where each request is: idle, validating, hashing, inserting, done
    sent,           \* the body of each request as the client sent it
    body,           \* req.body of each request
    password_hash,  \* the handler's password_hash
    result,         \* the handler's result: the insertId, 0 while there is none
    caught,         \* the code of the error the handler caught, "none" if none
    res,            \* the response of each request
    flow,           \* the states of the submission flow each request went through
    doneBefore,     \* the requests that were answered when each request arrived
    users,          \* the users table, in insertion order
    nextId,         \* its AUTO_INCREMENT counter
    now,            \* the clock of the storage
    listed,         \* the last response of GET /users
    queried         \* what the storage held, and whether it failed, at that GET

vars == << pc, sent, body, password_hash, result, caught, res, flow, doneBefore,
           users, nextId, now, listed, queried >>

Init ==
    /\ pc = [r \in Reqs |-> "idle"]
    /\ sent = [r \in Reqs |-> NoBody]
    /\ body = [r \in Reqs |-> NoBody]
    /\ password_hash = [r \in Reqs |-> Undefined]
    /\ result = [r \in Reqs |-> 0]
    /\ caught = [r \in Reqs |-> "none"]
    /\ res = [r \in Reqs |-> NoResponse]
    /\ flow = [r \in Reqs |-> << "Idle" >>]
    /\ doneBefore = [r \in Reqs |-> {}]
    /\ users = <<>>
    /\ nextId = 1
    /\ now = 1
    /\ listed = NoResponse
    /\ queried = [ fault |-> FALSE, table |-> <<>> ]

\* A client posts a body to /submit.  (Requests are numbered in the order
\* they arrive.)
Post(r, b) ==
    /\ pc[r] = "idle"
    /\ \A q \in 1..(r - 1) : pc[q] # "idle"
    /\ pc' = [pc EXCEPT ![r] = "validating"]
    /\ sent' = [sent EXCEPT ![r] = b]
    /\ body' = [body EXCEPT ![r] = b]
    /\ flow' = [flow EXCEPT ![r] = Append(@, "Validating")]
    /\ doneBefore' = [doneBefore EXCEPT ![r] = { q \in Reqs : pc[q] = "done" }]
    /\ UNCHANGED << password_hash, result, caught, res, users, nextId, now, listed,
                    queried >>

\* The validation chains run on req.body, then the handler starts: it
\* answers 422 when validationResult has errors, and calls bcrypt.hash
\* otherwise.
Validate(r) ==
    /\ pc[r] = "validating"
    /\ LET v == Validation(body[r])
       IN  /\ body' = [body EXCEPT ![r] = v.body]
           /\ IF v.errors # <<>>
              THEN /\ res' = [res EXCEPT ![r] = RenderInvalid(v.body, v.errors)]
                   /\ pc' = [pc EXCEPT ![r] = "done"]
                   /\ flow' = [flow EXCEPT ![r] = @ \o << "Invalid", "Idle(errors)" >>]
              ELSE /\ res' = res
                   /\ pc' = [pc EXCEPT ![r] = "hashing"]
                   /\ flow' = [flow EXCEPT ![r] = @ \o << "Valid", "Hashing" >>]
    /\ UNCHANGED << sent, password_hash, result, caught, users, nextId, now,
                    listed, queried, doneBefore >>

\* bcrypt.hash settles: on a hash the handler calls pool.execute, on a
\* rejection it goes to the catch block.
Hash(r) ==
    /\ pc[r] = "hashing"
    /\ \E salt \in Salts :
         LET h == hash(body[r].password, salt)
         IN  IF h.ok
             THEN /\ password_hash' = [password_hash EXCEPT ![r] = h.value]
                  /\ pc' = [pc EXCEPT ![r] = "inserting"]
                  /\ flow' = [flow EXCEPT ![r] = Append(@, "Inserting")]
                  /\ UNCHANGED << caught, res >>
             ELSE /\ caught' = [caught EXCEPT ![r] = h.code]
                  /\ res' = [res EXCEPT ![r] = RenderFailure(body[r], h.code)]
                  /\ pc' = [pc EXCEPT ![r] = "done"]
                  /\ flow' = [flow EXCEPT ![r] = @ \o << "Failure", "Idle(error)" >>]
                  /\ UNCHANGED password_hash
    /\ UNCHANGED << sent, body, result, users, nextId, now, listed, queried,
                    doneBefore >>

\* The storage executes the INSERT and pool.execute settles: the handler
\* renders the success, or catches the error and renders the failure.
Execute(r) ==
    /\ pc[r] = "inserting"
    /\ \E fault \in BOOLEAN :
         LET out == Insert(users, InsertValues(body[r], password_hash[r]),
                           nextId, now, fault)
         IN  /\ users' = out.table
             /\ nextId' = IF out.code = "none" THEN nextId + 1 ELSE nextId
             /\ result' = [result EXCEPT ![r] = out.insertId]
             /\ caught' = [caught EXCEPT ![r] = out.code]
             /\ IF out.code = "none"
                THEN /\ res' = [res EXCEPT ![r] = RenderSuccess]
                     /\ flow' = [flow EXCEPT ![r] = @ \o << "Success", "Idle(success)" >>]
                ELSE /\ res' = [res EXCEPT ![r] = RenderFailure(body[r], out.code)]
                     /\ flow' = [flow EXCEPT ![r] = @ \o << "Failure", "Idle(error)" >>]
    /\ pc' = [pc EXCEPT ![r] = "done"]
    /\ UNCHANGED << sent, body, password_hash, now, listed, queried, doneBefore >>

\* The clock of the storage advances.
Tick ==
    /\ now < 1 + MaxTicks
    /\ now' = now + 1
    /\ UNCHANGED << pc, sent, body, password_hash, result, caught, res, flow,
                    doneBefore, users, nextId, listed, queried >>

\* GET /users: the rows as JSON, or 500 when the query fails.
ListUsers ==
    /\ \E fault \in BOOLEAN :
         /\ queried' = [ fault |-> fault, table |-> users ]
         /\ IF fault
            THEN listed' = [ status |-> 500,
                             json |-> [ error |-> "Unable to fetch users" ] ]
            ELSE \E rows \in Select(users) :
                   listed' = [ status |-> 200, json |-> Arr(rows) ]
    /\ UNCHANGED << pc, sent, body, password_hash, result, caught, res, flow,
                    doneBefore, users, nextId, now >>

\* POST /submit alone: the requests, their validation, hashing and insert
Next ==
    \/ \E r \in Reqs : \E b \in Bodies : Post(r, b)
    \/ \E r \in Reqs : Validate(r)
    \/ \E r \in Reqs : Hash(r)
    \/ \E r \in Reqs : Execute(r)

Spec == Init /\ [][Next]_vars

\* POST /submit of bodies that pass validation, the clock, and GET /users
ListBodies == { b \in ValidBodies : b.password.t = "string" /\ b.name.v \in { ANN, BOB } }

NextUsers ==
    \/ \E r \in Reqs : \E b \in ListBodies : Post(r, b)
    \/ \E r \in Reqs : Validate(r)
    \/ \E r \in Reqs : Hash(r)
    \/ \E r \in Reqs : Execute(r)
    \/ Tick
    \/ ListUsers

SpecUsers == Init /\ [][NextUsers]_vars

\* ------------------------------------------------------------------------
\* Vocabulary of the properties
\* ------------------------------------------------------------------------
Done(r) == pc[r] = "done"
\* the request passed validation: its flow went through Valid
Validated(r) == "Valid" \in Range(flow[r])
\* the rows of the table a request's INSERT added
RowsOf(r) == { i \in 1..Len(users) : users[i].id = result[r] }
\* the rows of the table that hold an email
RowsWithEmail(email) == { i \in 1..Len(users) : users[i].email = email }
\* two requests were in flight at the same time
Overlap(q, r) == q # r /\ Done(q) /\ Done(r) /\ q \notin doneBefore[r] /\ r \notin doneBefore[q]
\* the storage failed the request's INSERT for a reason other than the index
Faulted(r) == caught[r] = "ECONNRESET"
\* the single error of a 500 rendering
ErrorsOf(msg) == Arr(<< [ msg |-> msg ] >>)

\* a body breaks a validation rule, in the words of the rules
BreaksRule(b) ==
    \/ ~isEmail(trim(toString(b.email)))
    \/ Length(trim(toString(b.name))) = 0
    \/ Length(trim(toString(b.name))) > 100
    \/ Length(toString(b.password)) < 6
    \/ LET m == trim(toString(b.message)) IN Length(m) > 0 /\ Length(m) > 2000

\* ------------------------------------------------------------------------
\* C1: a request whose input breaks a validation rule is answered 422 and
\* inserts nothing: the handler returns before hashing and before any
\* INSERT, and the table holds only the rows of requests that got an id.
\* ------------------------------------------------------------------------
C1_InvalidRejected ==
    /\ \A r \in Reqs :
          pc[r] \notin { "idle", "validating" } /\ BreaksRule(sent[r]) =>
            /\ Done(r)
            /\ res[r].status = 422
            /\ password_hash[r] = Undefined
            /\ result[r] = 0
            /\ caught[r] = "none"
            /\ Range(flow[r]) \cap { "Hashing", "Inserting" } = {}
    /\ Len(users) = Cardinality({ r \in Reqs : result[r] # 0 })

\* a request with an email that is no address was answered 422
C1_Witness ==
    \E r \in Reqs :
        /\ Done(r)
        /\ ~isEmail(trim(toString(sent[r].email)))
        /\ res[r].status = 422

\* ------------------------------------------------------------------------
\* C2 (as claimed): a request that passed validation, whose INSERT met
\* neither a row of its email nor a storage fault, has inserted exactly one
\* row, whose password_hash is not the password sent.
\* ------------------------------------------------------------------------
C2_ValidInsertsOneRow ==
    \A r \in Reqs :
        Done(r) /\ Validated(r) /\ caught[r] \notin { "ER_DUP_ENTRY", "ECONNRESET" } =>
            /\ Cardinality(RowsOf(r)) = 1
            /\ \A i \in RowsOf(r) : users[i].password_hash # sent[r].password

\* ------------------------------------------------------------------------
\* C3 (as claimed): of two validated requests with one email, the second
\* arriving after the first was answered, no other request carrying that
\* email and the storage failing neither: the first is answered with the
\* success rendering, the second with 500 and "already registered", and
\* the table holds one row of that email.
\* ------------------------------------------------------------------------
C3_SecondIsRejected ==
    \A q, r \in Reqs :
        ( /\ q \in doneBefore[r]
          /\ Done(r)
          /\ Validated(q) /\ Validated(r)
          /\ body[q].email = body[r].email
          /\ ~Faulted(q) /\ ~Faulted(r)
          /\ \A o \in Reqs \ { q, r } : body[o].email # body[q].email ) =>
            /\ res[q] = RenderSuccess
            /\ res[r].status = 500
            /\ res[r].errors = ErrorsOf("This email is already registered.")
            /\ Cardinality(RowsWithEmail(body[q].email)) = 1

\* ------------------------------------------------------------------------
\* C4: a step adds at most one row at the end of the table and changes no
\* row it held; the table grows exactly in the step that answers a request
\* with 200, and every request answered otherwise (422, 500) left it as it
\* was.
\* ------------------------------------------------------------------------
C4_Step ==
    /\ Len(users') \in { Len(users), Len(users) + 1 }
    /\ SubSeq(users', 1, Len(users)) = users
    /\ \A r \in Reqs :
          ~Done(r) /\ pc'[r] = "done" =>
            /\ res'[r].status \in { 200, 422, 500 }
            /\ (res'[r].status = 200) <=> (Len(users') = Len(users) + 1)
            /\ res'[r].status = 200 => users'[Len(users')].id = result'[r]
    /\ users' # users => \E r \in Reqs : ~Done(r) /\ pc'[r] = "done"
C4_TableChangesOnlyOnSuccess == [][C4_Step]_vars

\* one request was answered 200 and another 500, and the table holds one row
C4_Witness ==
    \E q, r \in Reqs :
        /\ Done(q) /\ res[q].status = 200
        /\ Done(r) /\ res[r].status = 500
        /\ Len(users) = 1

\* ------------------------------------------------------------------------
\* C5: the row of a request answered 200 holds null as its message when
\* the message sent was omitted, empty or whitespace, and the trimmed
\* message otherwise.
\* ------------------------------------------------------------------------
C5_MessageNullOrTrimmed ==
    \A r \in Reqs :
        Done(r) /\ res[r].status = 200 =>
            /\ RowsOf(r) # {}
            /\ \A i \in RowsOf(r) :
                  LET m == trim(toString(sent[r].message))
                  IN  IF Length(m) = 0 THEN users[i].message = Null
                      ELSE users[i].message = Str(m)

\* a request sent a message of whitespace alone and its row holds null
C5_Witness ==
    \E r \in Reqs :
        /\ Done(r) /\ res[r].status = 200
        /\ sent[r].message = Str(Rep(" ", 2))
        /\ \E i \in RowsOf(r) : users[i].message = Null

\* ------------------------------------------------------------------------
\* C6 (as claimed): a request answered 422 or 500 is rendered with the
\* name, email and message it sent, and no other field; a request answered
\* 200 is rendered with no prior input.
\* ------------------------------------------------------------------------
C6_OldIsWhatWasSent ==
    \A r \in Reqs :
        Done(r) =>
            /\ DOMAIN res[r].old = { "name", "email", "message" }
            /\ res[r].status \in { 422, 500 } =>
                  res[r].old = [ name |-> sent[r].name, email |-> sent[r].email,
                                 message |-> sent[r].message ]
            /\ res[r].status = 200 => res[r].old = NoOld

\* ------------------------------------------------------------------------
\* C7: a request whose INSERT raised a storage error is answered 500 with
\* one error message: "already registered" when the error is ER_DUP_ENTRY,
\* the retry message for any other; it carries no success message.
\* ------------------------------------------------------------------------
C7_StorageErrorClassified ==
    \A r \in Reqs :
        Done(r) /\ "Inserting" \in Range(flow[r]) /\ caught[r] # "none" =>
            /\ res[r].status = 500
            /\ res[r].success = Null
            /\ res[r].errors =
                  IF caught[r] = "ER_DUP_ENTRY"
                  THEN ErrorsOf("This email is already registered.")
                  ELSE ErrorsOf("An error occurred. Please try again.")

\* a request met the unique index after another had inserted its email
C7_Witness ==
    \E q, r \in Reqs :
        /\ Done(q) /\ res[q].status = 200
        /\ Done(r) /\ caught[r] = "ER_DUP_ENTRY"
        /\ body[q].email = body[r].email
        /\ sent[q].email # sent[r].email

\* ------------------------------------------------------------------------
\* C8: GET /users answers with one object per row the table held, of the
\* fields id, name, email, message, created_at and no other, a row of a
\* later created_at before a row of an earlier one; when the query fails
\* it answers 500 with the error message and no rows.
\* ------------------------------------------------------------------------
C8_ListIsAllRowsNewestFirst ==
    listed # NoResponse =>
        IF queried.fault
        THEN listed = [ status |-> 500, json |-> [ error |-> "Unable to fetch users" ] ]
        ELSE LET rows == listed.json.v
                 table == queried.table
             IN  /\ listed.status = 200
                 /\ Len(rows) = Len(table)
                 /\ \A i \in 1..Len(table) : \E k \in 1..Len(rows) :
                       /\ DOMAIN rows[k] = { "id", "name", "email", "message", "created_at" }
                       /\ rows[k].id = table[i].id
                       /\ rows[k].name = table[i].name
                       /\ rows[k].email = table[i].email
                       /\ rows[k].message = table[i].message
                       /\ rows[k].created_at = table[i].created_at
                 /\ \A i, j \in 1..Len(rows) :
                       rows[i].created_at > rows[j].created_at => i < j

\* a listing of two rows of distinct timestamps
C8_Witness ==
    /\ listed # NoResponse
    /\ listed.status = 200
    /\ Len(listed.json.v) = 2
    /\ listed.json.v[1].created_at > listed.json.v[2].created_at

\* ------------------------------------------------------------------------
\* C9 (as claimed): an answered request went through one of the three
\* paths of the submission flow, so that a validated request made exactly
\* one INSERT attempt.
\* ------------------------------------------------------------------------
SubmissionFlows ==
    { << "Idle", "Validating", "Invalid", "Idle(errors)" >>,
      << "Idle", "Validating", "Valid", "Hashing", "Inserting", "Success",
         "Idle(success)" >>,
      << "Idle", "Validating", "Valid", "Hashing", "Inserting", "Failure",
         "Idle(error)" >> }
C9_FlowAndOneInsert ==
    \A r \in Reqs :
        Done(r) =>
            /\ flow[r] \in SubmissionFlows
            /\ Validated(r) =>
                  Cardinality({ i \in 1..Len(flow[r]) : flow[r][i] = "Inserting" }) = 1

\* ------------------------------------------------------------------------
\* C10 (as claimed): the table never holds two rows of one email; and of
\* two validated requests in flight together with one normalized email, no
\* earlier request carrying that email and the storage failing neither,
\* one is answered 200 and the other 500 with "already registered".
\* ------------------------------------------------------------------------
C10_OneWinnerPerEmail ==
    /\ \A i, j \in 1..Len(users) : users[i].email = users[j].email => i = j
    /\ \A q, r \in Reqs :
          ( /\ Overlap(q, r)
            /\ Validated(q) /\ Validated(r)
            /\ body[q].email = body[r].email
            /\ ~Faulted(q) /\ ~Faulted(r)
            /\ \A o \in Reqs \ { q, r } : body[o].email # body[q].email ) =>
              \E w \in { q, r } :
                  /\ res[w] = RenderSuccess
                  /\ \A l \in { q, r } \ { w } :
                        /\ res[l].status = 500
                        /\ res[l].errors = ErrorsOf("This email is already registered.")
====
